---- MODULE Spec2Model ----
(***************************************************************************)
(* State-machine model of the vex-sdk-sim SDK bridging layer.              *)
(*                                                                         *)
(*   Spec / FairSpec : the command/event protocol driver of SdkState       *)
(*                     (src/src/sdk/mod.rs): setup, recv_command,         *)
(*                     recv_all_commands, wait_for_command,               *)
(*                     execute_command, run_tasks, the vexTasksRun shim.  *)
(*   DisplaySpec     : the display engine (src/src/sdk/display.rs):       *)
(*                     render modes, frame emission, drawing operations.  *)
(*   ShimSpec        : the display shims that read guest memory           *)
(*                     (read_c_string, clone_c_string!,                   *)
(*                     vexDisplayCopyRect).                               *)
(*   JumpSpec        : the jump table: JumpTableBuilder::insert,          *)
(*                     JumpTable::new, JumpTable::expose.                 *)
(***************************************************************************)
EXTENDS Integers, Sequences, FiniteSets, TLC

\* ------------------------------------------------------------------ bounds

\* Number of commands the outer controller sends over the protocol channel.
MaxArrivals == 4

\* Number of times setup() is called (each call sends one Ready event).
MaxSetupCalls == 2

\* ---------------------------------------------------------------- commands

\* Command payloads are kept by index; CompModeArg gives the fields of the two
\* CompetitionMode commands the controller may send.
CompModeArg(k) ==
  IF k = 1
    THEN [enabled |-> FALSE, connected |-> TRUE, mode |-> "Autonomous", is_competition |-> TRUE]
    ELSE [enabled |-> TRUE, connected |-> TRUE, mode |-> "Driver", is_competition |-> FALSE]

\* ControllerUpdate(primary, partner): the two controller snapshots it carries.
ControllerArg(k) == <<"pressed", "neutral">>

\* The commands of vexide_simulator_protocol::Command the model sends: the arms
\* of execute_command that do something (CompetitionMode, ControllerUpdate,
\* StartExecution), one that does nothing (SetTextMetrics) and one that is
\* todo!() (Touch).
Commands ==
  { [type |-> "CompetitionMode", arg |-> 1],
    [type |-> "CompetitionMode", arg |-> 2],
    [type |-> "ControllerUpdate", arg |-> 1],
    [type |-> "StartExecution", arg |-> 0],
    [type |-> "SetTextMetrics", arg |-> 0],
    [type |-> "Touch", arg |-> 0] }

\* The arms of execute_command that are unreachable!() or todo!().
PanicTypes ==
  { "Handshake", "Touch", "USD", "VEXLinkOpened", "VEXLinkClosed",
    "ConfigureDevice", "AdiInput", "SetBatteryCapacity" }

\* Predicates a caller hands to wait_for_command.
Checks == { "IsStartExecution", "IsCompetitionMode" }

Check(chk, cmd) ==
  CASE chk = "IsStartExecution" -> cmd.type = "StartExecution"
    [] OTHER -> cmd.type = "CompetitionMode"

\* -------------------------------------------------------------------- state

VARIABLES
  \* SdkState
  is_executing,           \* SdkState.is_executing
  command_process_queue,  \* SdkState.command_process_queue: ids of deferred commands
  competition_mode,       \* SdkState.competition_mode
  inputs,                 \* SdkState.inputs: the two controller snapshots
  \* Protocol (the channel to the outer controller)
  arrived,                \* every command that has arrived on the channel, in order
  nrecv,                  \* how many of them recv/try_recv have handed out
  link,                   \* "open" | "closed"
  events,                 \* outbound events sent so far
  \* the host thread
  pc,                     \* "boot" | "setup" | "idle" | "drain" | "wait" | "exited" | "panicked"
  check,                  \* the predicate of the wait_for_command call in progress
  result,                 \* the last call that returned, and how
  \* history
  executed,               \* ids of the commands passed to execute_command, in order
  deferred,               \* ids of the commands wait_for_command pushed onto the queue, in order
  failed_at,              \* how many commands had arrived when the last call, a drain,
                          \*   failed on a command; 0 once the next call is not a drain, or
                          \*   the next drain has executed the last of them or has returned
  wait0                   \* queue, Len(executed) and nrecv when the current wait_for_command began

pvars ==
  << is_executing, command_process_queue, competition_mode, inputs, arrived,
     nrecv, link, events, pc, check, result, executed, deferred, wait0, failed_at >>


\* The command with id i is the i-th to arrive.
Cmd(i) == arrived[i]

\* Commands in the protocol channel: arrived, not yet received.
Channel == SubSeq(arrived, nrecv + 1, Len(arrived))

Range(s) == { s[i] : i \in DOMAIN s }

\* CompetitionMode::default()
DefaultCompetitionMode ==
  [enabled |-> TRUE, connected |-> FALSE, mode |-> "Driver", is_competition |-> FALSE]

NoResult == [call |-> "none", res |-> "none"]
NoWait == [queue |-> <<>>, nexec |-> 0, nrecv |-> 0]

\* SdkState::new
ProtocolInit ==
  /\ is_executing = FALSE
  /\ command_process_queue = <<>>
  /\ competition_mode = DefaultCompetitionMode
  /\ inputs = <<"neutral", "neutral">>
  /\ arrived = <<>>
  /\ nrecv = 0
  /\ link = "open"
  /\ events = <<>>
  /\ pc = "boot"
  /\ check = "none"
  /\ result = NoResult
  /\ executed = <<>>
  /\ deferred = <<>>
  /\ wait0 = NoWait
  /\ failed_at = 0

\* --------------------------------------------------------- execute_command

\* The device state execute_command works on.
Device == [is_executing |-> is_executing, competition_mode |-> competition_mode,
           inputs |-> inputs, res |-> "ok"]

\* Mutant: StartExecution leaves the flag alone.
ArmStartExecution_Ignored(st) == st

\* Mutant: the flag is flipped instead of checked and set.
ArmStartExecution_Toggle(st) ==
  [st EXCEPT !.is_executing = ~st.is_executing]

\* Command::StartExecution arm.
ArmStartExecution(st) ==
  IF st.is_executing
    THEN [st EXCEPT !.res = "err"]
    ELSE [st EXCEPT !.is_executing = TRUE]

\* Command::CompetitionMode arm.
ArmCompetitionMode(st, cmd) ==
  [st EXCEPT !.competition_mode = CompModeArg(cmd.arg)]

\* Command::ControllerUpdate arm: set_controller(0, primary)?; set_controller(1, partner)?.
\* ctl is the index of the set_controller call that fails (0: neither).
ArmControllerUpdate(st, cmd, ctl) ==
  CASE ctl = 1 -> [st EXCEPT !.res = "err"]
    [] ctl = 2 -> [st EXCEPT !.inputs[1] = ControllerArg(cmd.arg)[1], !.res = "err"]
    [] OTHER -> [st EXCEPT !.inputs = ControllerArg(cmd.arg)]

\* SdkState::execute_command: the device state after cmd, with res the outcome
\* ("ok", "err": Err returned, "panic": unreachable!() or todo!()).
ExecuteCommand(st, cmd, ctl) ==
  CASE cmd.type \in PanicTypes -> [st EXCEPT !.res = "panic"]
    [] cmd.type = "ControllerUpdate" -> ArmControllerUpdate(st, cmd, ctl)
    [] cmd.type = "CompetitionMode" -> ArmCompetitionMode(st, cmd)
    [] cmd.type = "StartExecution" -> ArmStartExecution(st)
    [] OTHER -> st

\* The assignments of one execute_command call on command id.
Execute(id, ctl) ==
  LET st == ExecuteCommand(Device, Cmd(id), ctl) IN
  /\ is_executing' = st.is_executing
  /\ competition_mode' = st.competition_mode
  /\ inputs' = st.inputs
  /\ executed' = Append(executed, id)

Outcome(id, ctl) == ExecuteCommand(Device, Cmd(id), ctl).res

NoExecute ==
  UNCHANGED << is_executing, competition_mode, inputs, executed >>

\* ------------------------------------------------------------------ Protocol

\* Protocol::recv (blocking): "cmd" when a command is available, "err" when the
\* channel is closed and empty, "block" otherwise.
Recv ==
  IF nrecv < Len(arrived) THEN "cmd"
  ELSE IF link = "closed" THEN "err" ELSE "block"

\* Protocol::try_recv (non-blocking poll): never "block".
TryRecv ==
  IF nrecv < Len(arrived) THEN "cmd"
  ELSE IF link = "closed" THEN "err" ELSE "none"

\* Protocol::send: fails once the channel is closed.
Send == IF link = "closed" THEN "err" ELSE "ok"

\* The outer controller sends a command.
Arrive(c) ==
  /\ pc \notin {"exited", "panicked"}
  /\ link = "open"
  /\ Len(arrived) < MaxArrivals
  /\ arrived' = Append(arrived, c)
  /\ UNCHANGED << is_executing, command_process_queue, competition_mode, inputs,
                  nrecv, link, events, pc, check, result, executed, deferred, wait0, failed_at >>

\* The outer controller closes the channel.
Disconnect ==
  /\ pc \notin {"exited", "panicked"}
  /\ link = "open"
  /\ link' = "closed"
  /\ UNCHANGED << is_executing, command_process_queue, competition_mode, inputs,
                  arrived, nrecv, events, pc, check, result, executed, deferred, wait0, failed_at >>

\* ------------------------------------------------------------ call returns

\* A call of SdkState returns res to its caller. A panic ends the host process;
\* an Err of setup() leaves the boot sequence through `?` and ends it too. The
\* vexTasksRun shim hands run_tasks' result to the engine: an Err traps the
\* guest call.
Return(call, res) ==
  CASE res = "panic" -> pc' = "panicked" /\ UNCHANGED result
    [] call = "setup" /\ res = "err" -> pc' = "exited" /\ result' = [call |-> call, res |-> res]
    [] OTHER -> pc' = "idle" /\ result' = [call |-> call, res |-> res]

\* The guest call that entered vexTasksRun was failed by the shim.
GuestCallFailed == result = [call |-> "run_tasks", res |-> "err"]

\* Mutant: the channel is polled before the deferred queue is looked at.
PopFrontOr_PollFirst(poll) ==
  IF poll = "cmd" THEN "cmd"
  ELSE IF command_process_queue # <<>> THEN "queue" ELSE poll

\* pop_front().map_or_else(|| poll, ..): where the next command comes from.
PopFrontOr(poll) ==
  IF command_process_queue # <<>> THEN "queue" ELSE poll

\* Mutant: the command taken from the channel is the newest, not the oldest.
TakeId_Newest(src) ==
  IF src = "queue" THEN Head(command_process_queue) ELSE Len(arrived)

TakeId(src) == IF src = "queue" THEN Head(command_process_queue) ELSE nrecv + 1

\* Mutant: the command is looked at and left where it was.
Take_Keep(src) == UNCHANGED << command_process_queue, nrecv >>

\* pop_front, or the receive: the command leaves the queue or the channel.
Take(src) ==
  /\ command_process_queue' =
       IF src = "queue" THEN Tail(command_process_queue) ELSE command_process_queue
  /\ nrecv' = IF src = "cmd" THEN nrecv + 1 ELSE nrecv

\* Which set_controller call of a ControllerUpdate fails (0: neither).
CtlOutcomes == 0 .. 2

\* -------------------------------------------------------------------- setup

\* Mutant: setup enters its loop without announcing Ready.
SendReady_None(ev) == ev

\* self.protocol.send(&Event::Ready)
SendReady(ev) == Append(ev, "Ready")

\* SdkState::setup, up to the loop: self.protocol.send(&Event::Ready)?
CallSetup ==
  /\ pc \in {"boot", "idle"}
  /\ Len(events) < MaxSetupCalls
  /\ IF Send = "ok"
       THEN /\ events' = SendReady(events)
            /\ pc' = "setup"
            /\ UNCHANGED result
       ELSE /\ Return("setup", "err")
            /\ UNCHANGED events
  /\ wait0' = NoWait
  /\ check' = "none"
  /\ NoExecute
  /\ failed_at' = 0
  /\ UNCHANGED << command_process_queue, arrived, nrecv, link, deferred >>

\* One turn of `while !self.is_executing { self.recv_command()?; }`, or its exit.
SetupStep ==
  /\ pc = "setup"
  /\ IF is_executing
       THEN /\ Return("setup", "ok")
            /\ NoExecute
            /\ UNCHANGED << command_process_queue, nrecv >>
       ELSE LET src == PopFrontOr(Recv) IN
            /\ src # "block"
            /\ IF src = "err"
                 THEN /\ Return("setup", "err")
                      /\ NoExecute
                      /\ UNCHANGED << command_process_queue, nrecv >>
                 ELSE \E ctl \in CtlOutcomes :
                        /\ Take(src)
                        /\ Execute(TakeId(src), ctl)
                        /\ IF Outcome(TakeId(src), ctl) = "ok"
                             THEN pc' = "setup" /\ UNCHANGED result
                             ELSE Return("setup", Outcome(TakeId(src), ctl))
  /\ UNCHANGED << arrived, link, events, check, deferred, wait0, failed_at >>

\* ---------------------------------------------------------------- run_tasks

\* The guest calls vexTasksRun: run_tasks enters recv_all_commands.
CallRunTasks ==
  /\ pc = "idle"
  /\ pc' = "drain"
  /\ wait0' = NoWait
  /\ check' = "none"
  /\ NoExecute
  /\ UNCHANGED << command_process_queue, arrived, nrecv, link, events, result, deferred, failed_at >>

\* Inputs::update: poll the physical gamepad; the snapshots it may leave.
InputsUpdate == { inputs, <<"neutral", "neutral">> }

\* Mutant: the drain uses the blocking receive.
DrainPoll_Blocking == Recv

\* The poll of recv_all_commands: self.protocol.try_recv()
DrainPoll == TryRecv

\* One turn of the `while let Some(cmd) = ...` loop of recv_all_commands, or its
\* exit followed by the rest of run_tasks (self.inputs.update()?).
DrainStep ==
  /\ pc = "drain"
  /\ LET src == PopFrontOr(DrainPoll) IN
     /\ src # "block"
     /\ CASE src = "err" ->
               /\ Return("run_tasks", "err")
               /\ NoExecute
               /\ failed_at' = 0
               /\ UNCHANGED << command_process_queue, nrecv >>
          [] src = "none" ->
               /\ \E upd \in {"ok", "err"} : Return("run_tasks", upd)
               /\ inputs' \in InputsUpdate
               /\ failed_at' = 0
               /\ UNCHANGED << is_executing, competition_mode, executed,
                               command_process_queue, nrecv >>
          [] OTHER ->
               \E ctl \in CtlOutcomes :
                 /\ Take(src)
                 /\ Execute(TakeId(src), ctl)
                 /\ IF Outcome(TakeId(src), ctl) = "ok"
                      THEN pc' = "drain" /\ UNCHANGED result
                      ELSE Return("run_tasks", Outcome(TakeId(src), ctl))
                 /\ LET n == IF Outcome(TakeId(src), ctl) = "err"
                                 THEN Len(arrived) ELSE failed_at
                    IN failed_at' = IF \A i \in 1 .. n : i \in Range(executed')
                                      THEN 0 ELSE n
  /\ UNCHANGED << arrived, link, events, check, deferred, wait0 >>

\* --------------------------------------------------------- wait_for_command

\* Mutant: a command that fails the predicate is dropped.
Defer_Drop(queue, id) == queue

\* Mutant: push_front instead of push_back.
Defer_Front(queue, id) == <<id>> \o queue

\* self.command_process_queue.push_back(cmd)
Defer(queue, id) == Append(queue, id)

\* Mutant: `self.execute_command(cmd)?`.
Discard_Propagate(res) == res

\* `self.execute_command(cmd);`: the Result is dropped and Ok(()) follows the
\* break; a panic is not a Result.
Discard(res) == IF res = "panic" THEN "panic" ELSE "ok"

\* wait_for_command is entered.
CallWait(chk) ==
  /\ pc = "idle"
  /\ pc' = "wait"
  /\ check' = chk
  /\ wait0' = [queue |-> command_process_queue, nexec |-> Len(executed), nrecv |-> nrecv]
  /\ NoExecute
  /\ failed_at' = 0
  /\ UNCHANGED << command_process_queue, arrived, nrecv, link, events, result, deferred >>

\* One turn of the loop of wait_for_command: a blocking recv, then either
\* execute_command and break (its Result is dropped), or push_back.
WaitStep ==
  /\ pc = "wait"
  /\ Recv # "block"
  /\ IF Recv = "err"
       THEN /\ Return("wait_for_command", "err")
            /\ NoExecute
            /\ UNCHANGED << command_process_queue, nrecv, deferred >>
       ELSE /\ nrecv' = nrecv + 1
            /\ IF Check(check, Cmd(nrecv + 1))
                 THEN \E ctl \in CtlOutcomes :
                        /\ Execute(nrecv + 1, ctl)
                        /\ Return("wait_for_command", Discard(Outcome(nrecv + 1, ctl)))
                        /\ UNCHANGED << command_process_queue, deferred >>
                 ELSE /\ command_process_queue' = Defer(command_process_queue, nrecv + 1)
                      /\ deferred' = Append(deferred, nrecv + 1)
                      /\ NoExecute
                      /\ UNCHANGED << pc, result >>
  /\ UNCHANGED << arrived, link, events, check, wait0, failed_at >>

\* ================================================================== display

DISPLAY_HEIGHT == 272
DISPLAY_WIDTH == 480
HEADER_HEIGHT == 32

BLACK == <<0, 0, 0>>
WHITE == <<255, 255, 255>>
HEADER_BG == <<0, 153, 204>>

\* ProgramOptions::default_fg_color / default_bg_color.
DefaultFg == WHITE
DefaultBg == BLACK

\* A u32 is kept as the i32 with the same bits (`as u32` and back change no
\* bit), so that 2^32 never has to be written: a negative number stands for a
\* u32 of 2^31 or more. The operands the model adds stay below 2^30 in size.

\* a + b on u32 overflows (debug builds panic, release builds wrap).
U32AddOverflows(a, b) ==
  \/ a < 0 /\ b < 0
  \/ (a < 0) # (b < 0) /\ a + b >= 0

\* The wrapped u32 sum.
U32Add(a, b) == a + b

\* a < b on u32, for b below 2^31.
U32Less(a, b) == 0 <= a /\ a < b

\* RGB::unpack: byte 0 is red, byte 1 green, byte 2 blue; byte 3 is ignored.
Unpack(col) == << col % 256, (col \div 256) % 256, (col \div 65536) % 256 >>

\* The framebuffer is followed at these pixels; every drawing operation is
\* modelled by the colour it gives to an arbitrary pixel.
Probes == { <<10, 31>>, <<10, 32>>, <<10, 50>> }

InBounds(x, y) == 0 <= x /\ x < DISPLAY_WIDTH /\ 0 <= y /\ y < DISPLAY_HEIGHT

\* Inputs of the drawing operations.
FgColors == { 65280 }
BgColors == { 2130706687 }
Shapes ==
  { [kind |-> "Rect", x1 |-> 10, y1 |-> 50, x2 |-> 20, y2 |-> 60],
    [kind |-> "Rect", x1 |-> -5, y1 |-> -5, x2 |-> 600, y2 |-> 300],
    [kind |-> "Rect", x1 |-> 20, y1 |-> 50, x2 |-> 10, y2 |-> 60],
    [kind |-> "Circle", cx |-> 10, cy |-> 50, radius |-> 3] }
TextCalls ==
  { [text |-> <<>>, coords |-> <<5, 40>>, transparent |-> FALSE, font |-> "Normal"],
    [text |-> <<"H", "i">>, coords |-> <<5, 40>>, transparent |-> FALSE, font |-> "Normal"],
    [text |-> <<"H", "i">>, coords |-> <<5, 40>>, transparent |-> TRUE, font |-> "Small"],
    [text |-> <<"H", "i">>, coords |-> <<-3, 40>>, transparent |-> TRUE, font |-> "Normal"],
    [text |-> <<"a", " ">>, coords |-> <<5, 40>>, transparent |-> FALSE, font |-> "Normal"],
    [text |-> <<"a", " ">>, coords |-> <<5, 40>>, transparent |-> TRUE, font |-> "Normal"] }
SizeCalls ==
  { [text |-> <<>>, font |-> "Normal"],
    [text |-> <<"H", "i">>, font |-> "Normal"],
    [text |-> <<"a", " ">>, font |-> "Normal"] }
BufferCalls ==
  { [buf |-> [pixels |-> <<65280, 65280, 255, 255>>, extra |-> 0],
     top_left |-> <<10, 50>>, bot_right |-> <<11, 50>>, stride |-> 2],
    [buf |-> [pixels |-> <<255>>, extra |-> 2],
     top_left |-> <<479, 271>>, bot_right |-> <<479, 300>>, stride |-> 1],
    [buf |-> [pixels |-> <<255, 255>>, extra |-> 0],
     top_left |-> <<10, 31>>, bot_right |-> <<0, 31>>, stride |-> 1],
    [buf |-> [pixels |-> <<255>>, extra |-> 0],
     top_left |-> <<0, 0>>, bot_right |-> <<0, 0>>, stride |-> 0] }
Builds == { "debug", "release" }

VARIABLES
  foreground_color,   \* Display.foreground_color
  background_color,   \* Display.background_color
  canvas,             \* Display.canvas, at the probes
  render_mode,        \* Display.render_mode
  text_layout_cache,  \* Display.text_layout_cache
  saved,              \* display.png: whether it exists, and its frame at the probes
  dpc,                \* "running" | "panicked"
  \* history
  op,                 \* the last display operation
  emitted,            \* whether it saved a frame
  latch,              \* the last of render(true) / disable_double_buffer ("none": neither yet)
  laid_out,           \* whether it ran mono_font.layout
  last_text           \* the (text, font_type) of the last write_text or calculate_string_size

dvars ==
  << foreground_color, background_color, canvas, render_mode, text_layout_cache,
     saved, dpc, op, emitted, latch, laid_out, last_text >>

NoText == [text |-> <<>>, font |-> "none", some |-> FALSE]

NoCache == [text |-> <<>>, font |-> "none", glyphs |-> <<>>, some |-> FALSE]

\* Display::new
DisplayInit ==
  /\ foreground_color = DefaultFg
  /\ background_color = DefaultBg
  /\ canvas = [p \in Probes |-> DefaultBg]
  /\ render_mode = "Immediate"
  /\ text_layout_cache = NoCache
  /\ saved = [some |-> FALSE, frame |-> [p \in Probes |-> DefaultBg]]
  /\ dpc = "running"
  /\ op = "new"
  /\ emitted = FALSE
  /\ latch = "none"
  /\ laid_out = FALSE
  /\ last_text = NoText

\* ---- fimg::Image (filled_box, box, circle, border_circle, set_pixel)

Min(a, b) == IF a < b THEN a ELSE b

\* Mutant: filled_box fills nothing.
FilledBoxCovers_None(p, x, y, w, h) == FALSE

\* Image::filled_box((x, y), w, h, _) covers pixel p.
FilledBoxCovers(p, x, y, w, h) ==
  /\ x <= p[1] /\ p[1] < Min(x + w, DISPLAY_WIDTH)
  /\ y <= p[2] /\ p[2] < Min(y + h, DISPLAY_HEIGHT)

\* Image::box((x, y), w, h, _) covers pixel p: the outline.
BoxCovers(p, x, y, w, h) ==
  /\ InBounds(p[1], p[2])
  /\ x <= p[1] /\ p[1] <= x + w /\ y <= p[2] /\ p[2] <= y + h
  /\ (p[1] \in {x, x + w} \/ p[2] \in {y, y + h})

Dist2(p, cx, cy) == (p[1] - cx) * (p[1] - cx) + (p[2] - cy) * (p[2] - cy)

\* Image::circle((cx, cy), r, _) covers pixel p: the disc.
CircleCovers(p, cx, cy, r) ==
  InBounds(p[1], p[2]) /\ Dist2(p, cx, cy) <= r * r

\* Image::border_circle((cx, cy), r, _) covers pixel p: the ring.
BorderCircleCovers(p, cx, cy, r) ==
  /\ InBounds(p[1], p[2])
  /\ (r - 1) * (r - 1) < Dist2(p, cx, cy) /\ Dist2(p, cx, cy) <= r * r

\* ---- Path

Clamp(v, lo, hi) == IF v < lo THEN lo ELSE IF v > hi THEN hi ELSE v

\* Path::normalize
Normalize(shape) ==
  IF shape.kind = "Rect"
    THEN [shape EXCEPT !.x1 = Clamp(@, 0, DISPLAY_WIDTH - 1),
                       !.y1 = Clamp(@, 0, DISPLAY_HEIGHT - 1),
                       !.x2 = Clamp(@, 0, DISPLAY_WIDTH - 1),
                       !.y2 = Clamp(@, 0, DISPLAY_HEIGHT - 1)]
    ELSE [shape EXCEPT !.cx = Clamp(@, 0, DISPLAY_WIDTH - 1),
                       !.cy = Clamp(@, 0, DISPLAY_HEIGHT - 1)]

\* Path::draw panics: (x2 - x1).try_into().unwrap() or (y2 - y1).try_into().unwrap()
\* on a negative difference.
PathDrawPanics(shape) ==
  shape.kind = "Rect" /\ (shape.x2 - shape.x1 < 0 \/ shape.y2 - shape.y1 < 0)

\* Path::draw covers pixel p.
PathCovers(shape, stroke, p) ==
  IF shape.kind = "Rect"
    THEN IF stroke
           THEN BoxCovers(p, shape.x1, shape.y1, shape.x2 - shape.x1, shape.y2 - shape.y1)
           ELSE FilledBoxCovers(p, shape.x1, shape.y1, shape.x2 - shape.x1, shape.y2 - shape.y1)
    ELSE IF stroke
           THEN BorderCircleCovers(p, shape.cx, shape.cy, shape.radius)
           ELSE CircleCovers(p, shape.cx, shape.cy, shape.radius)

\* The canvas after Path::draw(canvas, stroke, color).
PathDraw(cv, shape, stroke, color) ==
  [p \in Probes |-> IF PathCovers(shape, stroke, p) THEN color ELSE cv[p]]

\* ---- render

\* Mutant: render saves the frame without redrawing the header.
DrawHeader_None(cv) == cv

\* Display::draw_header
DrawHeader(cv) ==
  [p \in Probes |->
     IF FilledBoxCovers(p, 0, 0, DISPLAY_WIDTH, HEADER_HEIGHT) THEN HEADER_BG ELSE cv[p]]

\* Mutant: an implicit render saves a frame in either mode.
RenderSkips_Never(mode, explicitly_requested) == FALSE

\* Display::render returns early: !explicitly_requested && render_mode == DoubleBuffered.
RenderSkips(mode, explicitly_requested) ==
  ~explicitly_requested /\ mode = "DoubleBuffered"

\* Mutant: any render latches double buffering.
RenderModeAfter_Always(mode, explicitly_requested) == "DoubleBuffered"

\* Display::render: the render mode it leaves.
RenderModeAfter(mode, explicitly_requested) ==
  IF explicitly_requested THEN "DoubleBuffered" ELSE mode

\* Display::render(explicitly_requested) on canvas cv.
Render(cv, explicitly_requested) ==
  /\ render_mode' = RenderModeAfter(render_mode, explicitly_requested)
  /\ IF RenderSkips(render_mode, explicitly_requested)
       THEN /\ canvas' = cv
            /\ UNCHANGED saved
            /\ emitted' = FALSE
       ELSE /\ canvas' = DrawHeader(cv)
            /\ saved' = [some |-> TRUE, frame |-> DrawHeader(cv)]
            /\ emitted' = TRUE

\* The operation panicked: the host process is gone.
Panic(name) ==
  /\ dpc' = "panicked"
  /\ op' = name
  /\ emitted' = FALSE
  /\ laid_out' = FALSE
  /\ UNCHANGED last_text
  /\ UNCHANGED << foreground_color, background_color, canvas, render_mode,
                  text_layout_cache, saved, latch >>

\* ---- text

\* FontType::y_offset, line_height, backdrop_y_offset
YOffset(font) == CASE font = "Small" -> -2 [] font = "Normal" -> -2 [] OTHER -> -1
LineHeight(font) == CASE font = "Small" -> 13 [] font = "Normal" -> 2 [] OTHER -> 2
BackdropYOffset(font) == CASE font = "Small" -> 2 [] font = "Normal" -> 0 [] OTHER -> 0

\* FontType::x_spacing() * idx as f32, truncated: x_spacing is 1.1.
XSpacing(idx) == (11 * idx) \div 10

\* Horizontal advance and vertical extent of the monospace font's glyphs at
\* font_type.font_size(), x scaled by x_scale.
Advance(font) == CASE font = "Small" -> 8 [] font = "Normal" -> 9 [] OTHER -> 17
GlyphTop(font) == CASE font = "Small" -> 4 [] font = "Normal" -> 4 [] OTHER -> 8
GlyphBottom(font) == CASE font = "Small" -> 14 [] font = "Normal" -> 15 [] OTHER -> 30

\* mono_font.layout(text, scale, point(0, ascent)): one positioned glyph per
\* character; a blank has no pixel bounding box.
Layout(text, font) ==
  [i \in 1 .. Len(text) |->
     [bb |-> text[i] # " ",
      minx |-> (i - 1) * Advance(font) + 1, maxx |-> i * Advance(font) - 1,
      miny |-> GlyphTop(font), maxy |-> GlyphBottom(font)]]

\* Mutant: the cache is never hit.
CacheHit_Never(text, font) == FALSE

\* Mutant: the cached font type is not compared.
CacheHit_TextOnly(text, font) ==
  text_layout_cache.some /\ text_layout_cache.text = text

\* Display::take_cached_glyphs_for: Some(glyphs) iff the cache holds this key.
CacheHit(text, font) ==
  text_layout_cache.some /\ text_layout_cache.text = text /\ text_layout_cache.font = font

\* Display::glyphs_for
GlyphsFor(text, font) ==
  IF CacheHit(text, font) THEN text_layout_cache.glyphs ELSE Layout(text, font)

\* size_of_layout panics: pixel_bounding_box().unwrap() of the last or first glyph.
SizeOfLayoutPanics(glyphs) ==
  glyphs # <<>> /\ (~glyphs[Len(glyphs)].bb \/ ~glyphs[1].bb)

\* size_of_layout, for a layout it does not panic on and that is not empty.
SizeOfLayout(glyphs) ==
  [minx |-> glyphs[1].minx, miny |-> glyphs[1].miny,
   maxx |-> glyphs[Len(glyphs)].maxx + XSpacing(Len(glyphs)),
   maxy |-> glyphs[Len(glyphs)].maxy]

\* Display::calculate_text_background (coords already carry y_offset).
CalculateTextBackground(glyphs, coords, font) ==
  Normalize([kind |-> "Rect",
             x1 |-> SizeOfLayout(glyphs).minx + coords[1] - 1,
             y1 |-> coords[2] + BackdropYOffset(font),
             x2 |-> SizeOfLayout(glyphs).maxx + coords[1] + 1,
             y2 |-> coords[2] + BackdropYOffset(font) + LineHeight(font) - 1])

\* blend_pixel, with fg_alpha in hundredths.
BlendChannel(bg, fg, a) == (fg * a + bg * (100 - a) + 50) \div 100
BlendPixel(bg, fg, a) ==
  << BlendChannel(bg[1], fg[1], a), BlendChannel(bg[2], fg[2], a),
     BlendChannel(bg[3], fg[3], a) >>

\* The coverage glyph.draw reports for a pixel of the bounding box, after
\* powf(0.4).clamp(0, 1), in hundredths: the glyphs are taken as solid.
Alpha == 100

\* `x += bounding_box.min.x as u32 + coords.0 as u32 + (x_spacing * idx) as u32`:
\* the right-hand side, before it wraps.
XShift(g, idx, coords) == U32Add(U32Add(g.minx, coords[1]), XSpacing(idx))
YShift(g, coords) == U32Add(g.miny, coords[2])

\* Some u32 addition of the glyph loop overflows for glyph g (index idx).
GlyphOverflows(g, idx, coords) ==
  /\ g.bb
  /\ \/ U32AddOverflows(g.minx, coords[1])
     \/ U32AddOverflows(U32Add(g.minx, coords[1]), XSpacing(idx))
     \/ U32AddOverflows(g.maxx - g.minx - 1, XShift(g, idx, coords))
     \/ U32AddOverflows(g.miny, coords[2])
     \/ U32AddOverflows(g.maxy - g.miny - 1, YShift(g, coords))

\* Glyph g (index idx) writes pixel p: some pixel (gx, gy) of its bounding box
\* lands on p after the wrapping additions, and p passes the bounds check.
GlyphCovers(g, idx, coords, p) ==
  /\ g.bb
  /\ U32Less(p[1], DISPLAY_WIDTH) /\ U32Less(p[2], DISPLAY_HEIGHT)
  /\ \E gx \in 0 .. (g.maxx - g.minx - 1) : U32Add(gx, XShift(g, idx, coords)) = p[1]
  /\ \E gy \in 0 .. (g.maxy - g.miny - 1) : U32Add(gy, YShift(g, coords)) = p[2]

\* The canvas after the glyph loop of write_text.
DrawGlyphs(cv, glyphs, coords, fg) ==
  [p \in Probes |->
     IF \E i \in DOMAIN glyphs : GlyphCovers(glyphs[i], i - 1, coords, p)
       THEN BlendPixel(cv[p], fg, Alpha)
       ELSE cv[p]]

\* ---- draw_buffer

\* Display::draw_buffer panics: chunks(0), or pixel[0..4] on the short last
\* chunk of a row that is reached.
DrawBufferPanics(buf, top_left, bot_right, stride) ==
  \/ stride * 4 = 0
  \/ /\ buf.extra > 0
     /\ top_left[2] + (Len(buf.pixels) \div stride) <= bot_right[2]

\* Display::draw_buffer writes pixel k (from 0) of the buffer to p.
BufferCovers(k, top_left, bot_right, stride, p) ==
  /\ top_left[2] + (k \div stride) <= bot_right[2]
  /\ p = << top_left[1] + (k % stride), top_left[2] + (k \div stride) >>
  /\ InBounds(p[1], p[2])

\* ---- operations

Done(name) == dpc' = "running" /\ op' = name

\* The operation neither laid out a text nor asked for one.
NoLayout == laid_out' = FALSE /\ UNCHANGED last_text

\* The operation asked glyphs_for for (text, font).
Asked(text, font) ==
  /\ laid_out' = ~CacheHit(text, font)
  /\ last_text' = [text |-> text, font |-> font, some |-> TRUE]

\* vexDisplayForegroundColor
SetForeground(col) ==
  /\ dpc = "running"
  /\ foreground_color' = Unpack(col)
  /\ Done("set_foreground") /\ NoLayout
  /\ emitted' = FALSE
  /\ UNCHANGED << background_color, canvas, render_mode, text_layout_cache, saved, latch >>

\* vexDisplayBackgroundColor
SetBackground(col) ==
  /\ dpc = "running"
  /\ background_color' = Unpack(col)
  /\ Done("set_background") /\ NoLayout
  /\ emitted' = FALSE
  /\ UNCHANGED << foreground_color, canvas, render_mode, text_layout_cache, saved, latch >>

\* Display::draw
Draw(shape, stroke) ==
  /\ dpc = "running"
  /\ IF PathDrawPanics(Normalize(shape))
       THEN Panic("draw")
       ELSE /\ Render(PathDraw(canvas, Normalize(shape), stroke, foreground_color), FALSE)
            /\ Done("draw") /\ NoLayout
            /\ UNCHANGED << foreground_color, background_color, text_layout_cache, latch >>

\* vexDisplayRender: display.render(true)
RenderExplicit ==
  /\ dpc = "running"
  /\ Render(canvas, TRUE)
  /\ Done("render") /\ NoLayout
  /\ latch' = "render"
  /\ UNCHANGED << foreground_color, background_color, text_layout_cache >>

\* Display::disable_double_buffer
DisableDoubleBuffer ==
  /\ dpc = "running"
  /\ render_mode' = "Immediate"
  /\ Done("disable_double_buffer") /\ NoLayout
  /\ latch' = "disable"
  /\ emitted' = FALSE
  /\ UNCHANGED << foreground_color, background_color, canvas, text_layout_cache, saved >>

\* Display::erase
Erase ==
  /\ dpc = "running"
  /\ canvas' = [p \in Probes |->
                  IF FilledBoxCovers(p, 0, 0, DISPLAY_WIDTH, DISPLAY_HEIGHT)
                    THEN DefaultBg ELSE canvas[p]]
  /\ Done("erase") /\ NoLayout
  /\ emitted' = FALSE
  /\ UNCHANGED << foreground_color, background_color, render_mode, text_layout_cache,
                  saved, latch >>

\* Display::draw_buffer
DrawBuffer(buf, top_left, bot_right, stride) ==
  /\ dpc = "running"
  /\ IF DrawBufferPanics(buf, top_left, bot_right, stride)
       THEN Panic("draw_buffer")
       ELSE /\ canvas' =
                 [p \in Probes |->
                    IF \E k \in 0 .. Len(buf.pixels) - 1 :
                         BufferCovers(k, top_left, bot_right, stride, p)
                      THEN Unpack(buf.pixels[1 + CHOOSE k \in 0 .. Len(buf.pixels) - 1 :
                                                 BufferCovers(k, top_left, bot_right, stride, p)])
                      ELSE canvas[p]]
            /\ Done("draw_buffer") /\ NoLayout
            /\ emitted' = FALSE
            /\ UNCHANGED << foreground_color, background_color, render_mode,
                            text_layout_cache, saved, latch >>

\* Display::write_text, coords.1 += y_offset done in the LET.
WriteText(text, coords0, transparent, font, build) ==
  LET coords == << coords0[1], coords0[2] + YOffset(font) >>
      glyphs == GlyphsFor(text, font)
      backed == IF transparent THEN canvas
                ELSE PathDraw(canvas, CalculateTextBackground(glyphs, coords, font),
                              FALSE, background_color)
  IN
  /\ dpc = "running"
  /\ IF text = <<>>
       THEN /\ Done("write_text_empty")
            /\ laid_out' = FALSE
            /\ last_text' = [text |-> text, font |-> font, some |-> TRUE]
            /\ emitted' = FALSE
            /\ UNCHANGED << foreground_color, background_color, canvas, render_mode,
                            text_layout_cache, saved, latch >>
       ELSE IF \/ ~transparent /\ SizeOfLayoutPanics(glyphs)
               \/ /\ build = "debug"
                  /\ \E i \in DOMAIN glyphs : GlyphOverflows(glyphs[i], i - 1, coords)
              THEN Panic("write_text")
              ELSE /\ text_layout_cache' =
                        [text |-> text, font |-> font, glyphs |-> glyphs, some |-> TRUE]
                   /\ Render(DrawGlyphs(backed, glyphs, coords, foreground_color), FALSE)
                   /\ Done("write_text") /\ Asked(text, font)
                   /\ UNCHANGED << foreground_color, background_color, latch >>

\* Display::calculate_string_size
CalculateStringSize(text, font) ==
  /\ dpc = "running"
  /\ IF SizeOfLayoutPanics(GlyphsFor(text, font))
       THEN Panic("calculate_string_size")
       ELSE /\ text_layout_cache' =
                 [text |-> text, font |-> font, glyphs |-> GlyphsFor(text, font), some |-> TRUE]
            /\ Done("calculate_string_size") /\ Asked(text, font)
            /\ emitted' = FALSE
            /\ UNCHANGED << foreground_color, background_color, canvas, render_mode,
                            saved, latch >>

\* ---- string-taking shims

\* The guest's linear memory, from offset 0: "Hi\0", "a \0", 0xFF "\0", "H" and
\* the end of memory. Its bytes are ASCII or 0xFF, a byte no UTF-8 text holds.
GuestMemory == << 72, 105, 0, 97, 32, 0, 255, 0, 72 >>

\* The string pointers the guest passes, after `as usize`.
Pointers == { 0, 3, 6, 7, 8, 9, 10 }

\* CStr::to_str on these bytes succeeds.
Utf8Valid(bytes) == \A i \in DOMAIN bytes : bytes[i] < 128

CharOf(b) ==
  CASE b = 72 -> "H" [] b = 105 -> "i" [] b = 97 -> "a" [] b = 32 -> " " [] OTHER -> "?"

NoString(kind) == [kind |-> kind, text |-> <<>>]

\* CStr::from_bytes_until_nul: the index of the first NUL at or after offset.
FirstNul(offset) ==
  CHOOSE n \in offset + 1 .. Len(GuestMemory) :
    GuestMemory[n] = 0 /\ \A k \in offset + 1 .. n - 1 : GuestMemory[k] # 0

\* MemoryExt::read_c_string(offset) through clone_c_string!: the slice
\* data[offset..] panics when offset is past the end of memory; no NUL or
\* invalid UTF-8 gives None, which clone_c_string! turns into an Err.
ReadCString(offset) ==
  IF offset > Len(GuestMemory) THEN NoString("panic")
  ELSE IF \A k \in offset + 1 .. Len(GuestMemory) : GuestMemory[k] # 0
    THEN NoString("none")
  ELSE LET bytes == SubSeq(GuestMemory, offset + 1, FirstNul(offset) - 1) IN
       IF Utf8Valid(bytes)
         THEN [kind |-> "some", text |-> [i \in DOMAIN bytes |-> CharOf(bytes[i])]]
         ELSE NoString("none")

\* TextLine::coords
TextLineCoords(line) == << 0, line * 20 + HEADER_HEIGHT >>

ShimNames ==
  { "vexDisplayStringWidthGet", "vexDisplayStringHeightGet", "vexDisplayVPrintf",
    "vexDisplayVString", "vexDisplayVSmallStringAt" }

\* The calls of the string-taking shims: every shim on every pointer.
ShimCalls == [shim : ShimNames, ptr : Pointers]

\* The host function returns Err: the engine traps the guest call.
Trap(name) ==
  /\ dpc' = "running"
  /\ op' = name
  /\ emitted' = FALSE
  /\ NoLayout
  /\ UNCHANGED << foreground_color, background_color, canvas, render_mode,
                  text_layout_cache, saved, latch >>

\* A string-taking shim: clone_c_string!(ptr)? and then the display operation.
Shim(c, build) ==
  LET s == ReadCString(c.ptr) IN
  /\ dpc = "running"
  /\ CASE s.kind = "panic" -> Panic("read_c_string")
       [] s.kind = "none" -> Trap("trap")
       [] c.shim \in {"vexDisplayStringWidthGet", "vexDisplayStringHeightGet"} ->
            CalculateStringSize(s.text, "Normal")
       [] c.shim = "vexDisplayVPrintf" ->
            WriteText(s.text, <<5, 40>>, TRUE, "Normal", build)
       [] c.shim = "vexDisplayVString" ->
            WriteText(s.text, TextLineCoords(1), FALSE, "Normal", build)
       [] OTHER ->
            WriteText(s.text, <<5, 40>>, FALSE, "Small", build)

\* ---- vexDisplayCopyRect

MaxI32 == 2147483647

\* a - b leaves i32.
I32SubOverflows(a, b) ==
  IF b < 0 THEN a > MaxI32 + b ELSE a < (-MaxI32 - 1) + b

\* a - b as the release build computes it: modulo 2^32.
I32SubWrapped(a, b) ==
  IF ~I32SubOverflows(a, b) THEN a - b
  ELSE IF b < 0 THEN (a - MaxI32 - 1) + ((-b) - MaxI32 - 1)
  ELSE (a + MaxI32 + 1) + (MaxI32 + 1 - b)

\* A usize is kept as a small integer: d < 0 stands for 2^64 + d, which is what
\* `d as usize` gives for a negative i32. a * b leaves usize.
UsizeMulOverflows(a, b) ==
  \/ a < 0 /\ b \notin {0, 1}
  \/ b < 0 /\ a \notin {0, 1}

\* let buffer_len = (x2 - x1) as usize * (y2 - y1) as usize * 4: a panic in a
\* build with overflow checks, else the wrapped length (negative: above 2^63).
BufferLen(c, build) ==
  LET dx == I32SubWrapped(c.x2, c.x1)
      dy == I32SubWrapped(c.y2, c.y1)
  IN IF /\ build = "debug"
        /\ \/ I32SubOverflows(c.x2, c.x1)
           \/ I32SubOverflows(c.y2, c.y1)
           \/ UsizeMulOverflows(dx, dy)
           \/ UsizeMulOverflows(dx * dy, 4)
       THEN [kind |-> "panic", len |-> 0]
       ELSE [kind |-> "len", len |-> dx * dy * 4]

\* memory.data(..)[buffer_ptr as usize..][..buffer_len]: both slices panic
\* when out of range.
SlicePanics(ptr, len) ==
  \/ ptr > Len(GuestMemory)
  \/ len < 0
  \/ len > Len(GuestMemory) - ptr

\* u32::from_le_bytes of the 4 bytes of guest memory from offset.
U32FromLe(at) ==
  GuestMemory[at + 1] + 256 * GuestMemory[at + 2] + 65536 * GuestMemory[at + 3]
    + 16777216 * GuestMemory[at + 4]

\* The pixels draw_buffer unpacks from data[ptr..ptr + len].
BufferAt(ptr, len) ==
  [pixels |-> [k \in 1 .. (len \div 4) |-> U32FromLe(ptr + 4 * (k - 1))],
   extra |-> len % 4]

\* The calls of vexDisplayCopyRect.
CopyRectCalls ==
  { [x1 |-> 10, y1 |-> 50, x2 |-> 11, y2 |-> 51, ptr |-> 0, stride |-> 1],
    [x1 |-> 10, y1 |-> 50, x2 |-> 12, y2 |-> 51, ptr |-> 1, stride |-> 2],
    [x1 |-> 10, y1 |-> 50, x2 |-> 12, y2 |-> 51, ptr |-> 6, stride |-> 2],
    [x1 |-> 10, y1 |-> 50, x2 |-> 10, y2 |-> 51, ptr |-> 9, stride |-> 1],
    [x1 |-> 10, y1 |-> 50, x2 |-> 10, y2 |-> 51, ptr |-> 10, stride |-> 1],
    [x1 |-> 20, y1 |-> 50, x2 |-> 10, y2 |-> 51, ptr |-> 0, stride |-> 1],
    [x1 |-> 12, y1 |-> 52, x2 |-> 10, y2 |-> 51, ptr |-> 0, stride |-> 2],
    [x1 |-> 10, y1 |-> MaxI32, x2 |-> 11, y2 |-> -MaxI32, ptr |-> 0, stride |-> 2],
    [x1 |-> 10, y1 |-> 50, x2 |-> 11, y2 |-> 51, ptr |-> 0, stride |-> 0] }

\* The vexDisplayCopyRect shim.
CopyRect(c, build) ==
  LET n == BufferLen(c, build) IN
  /\ dpc = "running"
  /\ IF n.kind = "panic" THEN Panic("copy_rect")
     ELSE IF SlicePanics(c.ptr, n.len) THEN Panic("copy_rect")
     ELSE DrawBuffer(BufferAt(c.ptr, n.len), << c.x1, c.y1 >>, << c.x2, c.y2 >>, c.stride)

\* =============================================================== jump table

\* Number of addresses build_controller_jump_table inserts.
MaxControllerInserts == 2

\* 0x037FC000
JUMP_TABLE_START == 58703872

\* main: let target_pages = 0x700
TargetPages == 1792

\* The bytes of a page of guest memory.
PageSize == 65536

\* Mutant: the second display function is registered at 0x642.
DisplayAddresses_Unaligned ==
  << 1600, 1602, 1640, 1648, 1652, 1660, 1728, 1732, 1952, 1956, 1664, 1668,
     1712, 1620 >>

\* The addresses build_display_jump_table inserts, in its order: 0x640, 0x644,
\* 0x668, 0x670, 0x674, 0x67c, 0x6c0, 0x6c4, 0x7a0, 0x7a4, 0x680, 0x684, 0x6b0,
\* 0x654.
DisplayAddresses ==
  << 1600, 1604, 1640, 1648, 1652, 1660, 1728, 1732, 1952, 1956, 1664, 1668,
     1712, 1620 >>

\* The addresses JumpTable::new inserts itself, in its order: 0x89c, 0x05c,
\* 0x134, 0x8ac, 0x130, 0x9d8.
NewAddresses == << 2204, 92, 308, 2220, 304, 2520 >>

\* Addresses build_controller_jump_table may insert: one of its own (0x1a4)
\* and one the display table holds already (0x640).
ControllerAddresses == { 420, 1600 }

AllAddresses ==
  {DisplayAddresses[i] : i \in DOMAIN DisplayAddresses}
    \cup {NewAddresses[i] : i \in DOMAIN NewAddresses} \cup ControllerAddresses

\* Sizes of the guest's indirect function table before expose.
TableSizes == { 0, 250 }

\* Sizes of the guest's linear memory in bytes: 0x700 pages, and one that ends
\* inside the jump table.
MemorySizes == { TargetPages * PageSize, JUMP_TABLE_START + 1000 }

\* Seeds of the HashMap's hasher: each gives an iteration order.
Seeds == { 1, 5, 11 }

\* The bytes of guest memory that are followed, as offsets from
\* JUMP_TABLE_START: the 4 from every address, the one before and the one after.
MemBytes == UNION { a - 1 .. a + 4 : a \in AllAddresses }

\* What a byte of guest memory holds before expose.
GuestByte == 170

\* The guest's function in slot k of its indirect function table (host
\* functions are numbered from 1, a null slot is 0).
GuestSlot(k) == -(k + 1)

\* The guest's indirect function table of a size, before expose.
GuestTable(size) == [k \in 0 .. size - 1 |-> GuestSlot(k)]

VARIABLES
  jbuild,    \* "debug" | "release": whether debug_assert! is compiled in
  jpc,       \* "start" | "display" | "controller" | "new" | "built" | "exposing" | "exposed"
             \*   | "failed" | "panicked"
  jidx,      \* position in DisplayAddresses / NewAddresses
  nctl,      \* inserts made by build_controller_jump_table
  nfuncs,    \* host functions wrapped so far; the last one is function nfuncs
  api,       \* JumpTable.api: address -> function
  sdk_base,  \* table.size() when expose was called
  slots,     \* the indirect function table at expose: index -> function, 0 for null
  mem,       \* guest memory at JUMP_TABLE_START + MemBytes
  offset,    \* expose: entries handled
  seed,      \* expose: the iteration order of self.api
  mem_size   \* expose: the size of the guest memory

jvars ==
  << jbuild, jpc, jidx, nctl, nfuncs, api, sdk_base, slots, mem, offset, seed, mem_size >>

NoApi == [a \in {} |-> 0]

\* Before JumpTable::new.
JumpInit ==
  /\ jbuild = "debug"
  /\ jpc = "start"
  /\ jidx = 1
  /\ nctl = 0
  /\ nfuncs = 0
  /\ api = NoApi
  /\ sdk_base = 0
  /\ slots = NoApi
  /\ mem = [o \in MemBytes |-> GuestByte]
  /\ offset = 0
  /\ seed = 1
  /\ mem_size = 0

\* Mutant: the duplicate check is compiled out of every build.
InsertDetects_Never(build) == FALSE

\* debug_assert!(!self.jump_table.api.contains_key(&address)) is compiled in.
InsertDetects(build) == build = "debug"

\* JumpTableBuilder::insert(address, func), then `next` as the place in new().
Insert(address, next, idx) ==
  IF address \in DOMAIN api /\ InsertDetects(jbuild)
    THEN /\ jpc' = "panicked"
         /\ UNCHANGED << jidx, nfuncs, api >>
    ELSE /\ nfuncs' = nfuncs + 1
         /\ api' = [a \in DOMAIN api \cup {address} |->
                      IF a = address THEN nfuncs + 1 ELSE api[a]]
         /\ jpc' = next
         /\ jidx' = idx

NotExposing == UNCHANGED << jbuild, sdk_base, slots, mem, offset, seed, mem_size >>

\* JumpTable::new in a build: the builder over an empty HashMap.
NewJumpTable(build) ==
  /\ jpc = "start"
  /\ jbuild' = build
  /\ jpc' = "display"
  /\ api' = NoApi
  /\ UNCHANGED << jidx, nctl, nfuncs, sdk_base, slots, mem, offset, seed, mem_size >>

\* build_display_jump_table: its next insert.
InsertDisplay ==
  /\ jpc = "display"
  /\ IF jidx < Len(DisplayAddresses)
       THEN Insert(DisplayAddresses[jidx], "display", jidx + 1)
       ELSE Insert(DisplayAddresses[jidx], "controller", 1)
  /\ UNCHANGED nctl
  /\ NotExposing

\* build_controller_jump_table: an insert.
InsertController(address) ==
  /\ jpc = "controller"
  /\ nctl < MaxControllerInserts
  /\ nctl' = nctl + 1
  /\ Insert(address, "controller", 1)
  /\ NotExposing

\* build_controller_jump_table returns.
ControllerDone ==
  /\ jpc = "controller"
  /\ jpc' = "new"
  /\ UNCHANGED << jidx, nctl, nfuncs, api >>
  /\ NotExposing

\* JumpTable::new: its next insert; after the last it returns the table.
InsertNew ==
  /\ jpc = "new"
  /\ IF jidx < Len(NewAddresses)
       THEN Insert(NewAddresses[jidx], "new", jidx + 1)
       ELSE Insert(NewAddresses[jidx], "built", 1)
  /\ UNCHANGED nctl
  /\ NotExposing

\* ---- expose

\* The place of address a in the iteration order of the HashMap under seed sd.
HashLess(sd, a, b) ==
  \/ (a * sd) % 64 < (b * sd) % 64
  \/ (a * sd) % 64 = (b * sd) % 64 /\ a < b

\* self.api.into_iter().enumerate(): the address at position n (from 0).
Nth(sd, n) ==
  CHOOSE a \in DOMAIN api :
    Cardinality({b \in DOMAIN api : HashLess(sd, b, a)}) = n

\* Mutant: the functions go to the slots from 0.
SdkIndex_FromZero(base, n) == n

\* Mutant: every function goes to the first new slot.
SdkIndex_NoOffset(base, n) == base

\* let sdk_index = sdk_base + (offset as u32)
SdkIndex(base, n) == base + n

\* sdk_index.to_le_bytes()[i]
LeByte(k, i) ==
  CASE i = 0 -> k % 256
    [] i = 1 -> (k \div 256) % 256
    [] i = 2 -> (k \div 65536) % 256
    [] OTHER -> (k \div 16777216) % 256

\* JumpTable::expose up to its loop: table.size(), table.grow(.., api_size, null)?
CallExpose(base, sd, size, grow_ok) ==
  /\ jpc = "built"
  /\ sdk_base' = base
  /\ seed' = sd
  /\ mem_size' = size
  /\ offset' = 0
  /\ IF grow_ok
       THEN /\ slots' = [k \in 0 .. base + Cardinality(DOMAIN api) - 1 |->
                          IF k < base THEN GuestTable(base)[k] ELSE 0]
            /\ jpc' = "exposing"
       ELSE /\ slots' = GuestTable(base)
            /\ jpc' = "failed"
  /\ UNCHANGED << jbuild, jidx, nctl, nfuncs, api, mem >>

\* One turn of the loop of expose (table.set, then memory.write(..)?), or its end.
ExposeStep ==
  /\ jpc = "exposing"
  /\ IF offset = Cardinality(DOMAIN api)
       THEN /\ jpc' = "exposed"
            /\ UNCHANGED << slots, mem, offset >>
       ELSE LET address == Nth(seed, offset)
                sdk_index == SdkIndex(sdk_base, offset)
            IN /\ slots' = [slots EXCEPT ![sdk_index] = api[address]]
               /\ IF JUMP_TABLE_START + address + 4 <= mem_size
                    THEN /\ mem' = [o \in MemBytes |->
                                      IF o \in address .. address + 3
                                        THEN LeByte(sdk_index, o - address)
                                        ELSE mem[o]]
                         /\ offset' = offset + 1
                         /\ jpc' = "exposing"
                    ELSE /\ jpc' = "failed"
                         /\ UNCHANGED << mem, offset >>
  /\ UNCHANGED << jbuild, jidx, nctl, nfuncs, api, sdk_base, seed, mem_size >>

\* ------------------------------------------------------------ specification

Init == ProtocolInit /\ DisplayInit /\ JumpInit

vars == << pvars, dvars, jvars >>

Next ==
  \/ \E c \in Commands : Arrive(c) /\ UNCHANGED << dvars, jvars >>
  \/ Disconnect /\ UNCHANGED << dvars, jvars >>
  \/ CallSetup /\ UNCHANGED << dvars, jvars >>
  \/ SetupStep /\ UNCHANGED << dvars, jvars >>
  \/ CallRunTasks /\ UNCHANGED << dvars, jvars >>
  \/ DrainStep /\ UNCHANGED << dvars, jvars >>
  \/ \E chk \in Checks : CallWait(chk) /\ UNCHANGED << dvars, jvars >>
  \/ WaitStep /\ UNCHANGED << dvars, jvars >>

Spec == Init /\ [][Next]_vars

DisplayNext ==
  \/ \E col \in FgColors : SetForeground(col) /\ UNCHANGED << pvars, jvars >>
  \/ \E col \in BgColors : SetBackground(col) /\ UNCHANGED << pvars, jvars >>
  \/ \E shape \in Shapes, stroke \in BOOLEAN : Draw(shape, stroke) /\ UNCHANGED << pvars, jvars >>
  \/ RenderExplicit /\ UNCHANGED << pvars, jvars >>
  \/ DisableDoubleBuffer /\ UNCHANGED << pvars, jvars >>
  \/ Erase /\ UNCHANGED << pvars, jvars >>
  \/ \E b \in BufferCalls :
       DrawBuffer(b.buf, b.top_left, b.bot_right, b.stride) /\ UNCHANGED << pvars, jvars >>
  \/ \E t \in TextCalls, build \in Builds :
       WriteText(t.text, t.coords, t.transparent, t.font, build) /\ UNCHANGED << pvars, jvars >>
  \/ \E t \in SizeCalls : CalculateStringSize(t.text, t.font) /\ UNCHANGED << pvars, jvars >>

DisplaySpec == Init /\ [][DisplayNext]_vars

\* The guest drives the display through the shims that read its memory, the
\* colour setters and the render controls.
ShimNext ==
  \/ \E c \in ShimCalls, build \in Builds : Shim(c, build) /\ UNCHANGED << pvars, jvars >>
  \/ \E c \in CopyRectCalls, build \in Builds : CopyRect(c, build) /\ UNCHANGED << pvars, jvars >>
  \/ \E col \in FgColors : SetForeground(col) /\ UNCHANGED << pvars, jvars >>
  \/ \E col \in BgColors : SetBackground(col) /\ UNCHANGED << pvars, jvars >>
  \/ RenderExplicit /\ UNCHANGED << pvars, jvars >>
  \/ DisableDoubleBuffer /\ UNCHANGED << pvars, jvars >>

ShimSpec == Init /\ [][ShimNext]_vars

\* Boot builds the jump table and exposes it to the guest.
JumpNext ==
  \/ \E build \in Builds : NewJumpTable(build) /\ UNCHANGED << pvars, dvars >>
  \/ InsertDisplay /\ UNCHANGED << pvars, dvars >>
  \/ \E a \in ControllerAddresses : InsertController(a) /\ UNCHANGED << pvars, dvars >>
  \/ ControllerDone /\ UNCHANGED << pvars, dvars >>
  \/ InsertNew /\ UNCHANGED << pvars, dvars >>
  \/ \E base \in TableSizes, sd \in Seeds, size \in MemorySizes, grow_ok \in BOOLEAN :
       CallExpose(base, sd, size, grow_ok) /\ UNCHANGED << pvars, dvars >>
  \/ ExposeStep /\ UNCHANGED << pvars, dvars >>

JumpSpec == Init /\ [][JumpNext]_vars

\* The host thread is the only thread and runs each loop to its end: a loop
\* turn that can be taken is taken.
FairSpec ==
  /\ Spec
  /\ WF_vars(SetupStep /\ UNCHANGED << dvars, jvars >>)
  /\ WF_vars(DrainStep /\ UNCHANGED << dvars, jvars >>)
  /\ WF_vars(WaitStep /\ UNCHANGED << dvars, jvars >>)

\* ================================================================== claims

Ids == 1 .. Len(arrived)

IsStart(id) == Cmd(id).type = "StartExecution"

\* This step passes command id to execute_command.
Executes(id) == executed' = Append(executed, id)

Last(s) == s[Len(s)]

UpTo(n) == [k \in 1 .. n |-> k]

SetupOk == pc = "idle" /\ result = [call |-> "setup", res |-> "ok"]
RunTasksOk == pc = "idle" /\ result = [call |-> "run_tasks", res |-> "ok"]
WaitOk == pc = "idle" /\ result = [call |-> "wait_for_command", res |-> "ok"]

\* ---- C1
C1_Step ==
  /\ is_executing => is_executing'
  /\ \A id \in Ids :
       (Executes(id) /\ IsStart(id)) =>
         /\ is_executing'
         /\ is_executing =>
              /\ ExecuteCommand(Device, Cmd(id), 0).res = "err"
              /\ competition_mode' = competition_mode
              /\ inputs' = inputs
              /\ pc = "drain" => GuestCallFailed'

\* C1: StartExecution sets is_executing when it is false; when it is already
\* true the command returns an error and leaves is_executing true and the
\* competition mode and inputs as they were; is_executing never goes back to
\* false, so it changes false->true at most once.
C1_StartExecutionOnce == (pc = "boot" => ~is_executing) /\ [][C1_Step]_vars

\* A second StartExecution has been executed.
C1_Witness ==
  /\ is_executing
  /\ Cardinality({k \in DOMAIN executed : IsStart(executed[k])}) >= 2

\* ---- C2
\* C2: as long as no condition-wait has deferred a command, the commands passed
\* to execute_command are exactly the commands received, in arrival order, each
\* once, by setup's recv_command and by the drains alike.
C2_ArrivalOrder == deferred = <<>> => executed = UpTo(nrecv)

\* Two commands executed by setup (the second is StartExecution), a third by a drain.
C2_Witness ==
  /\ deferred = <<>>
  /\ Len(executed) = 3
  /\ IsStart(2)
  /\ RunTasksOk

\* ---- C3
ExecutedDeferred == SelectSeq(executed, LAMBDA i : i \in Range(deferred))

C3_Fifo == ExecutedDeferred \o command_process_queue = deferred

C3_Step ==
  (pc \in {"drain", "setup"} /\ nrecv' # nrecv) => command_process_queue = <<>>

C4_NoLoss ==
  /\ Len(executed) + Len(command_process_queue) = nrecv
  /\ Range(executed) \cup Range(command_process_queue) = 1 .. nrecv
  /\ Range(deferred) \subseteq Range(executed) \cup Range(command_process_queue)

C4_Live ==
  \A i \in 1 .. MaxArrivals :
    []<>(pc = "drain") =>
      ((i \in Range(command_process_queue)) ~> (i \in Range(executed)))

\* C4: every command received is either in executed or in the deferred queue,
\* never both and never twice; and if drains keep occurring, a command in the
\* deferred queue is eventually passed to execute_command.
C4_NoCommandDropped == []C4_NoLoss /\ C4_Live

\* A command that failed the predicate has since been executed.
C4_Witness == \E i \in Range(deferred) : i \in Range(executed)

\* ---- C5
\* The first StartExecution to arrive (0: none has).
FirstStart ==
  IF \E i \in Ids : IsStart(i)
    THEN CHOOSE i \in Ids : IsStart(i) /\ \A j \in 1 .. i - 1 : ~IsStart(j)
    ELSE 0

\* The values of the last CompetitionMode command among the first k to arrive.
ModeAfter(k) ==
  LET S == {i \in 1 .. k : Cmd(i).type = "CompetitionMode"} IN
  IF S = {} THEN DefaultCompetitionMode
  ELSE CompModeArg(Cmd(CHOOSE i \in S : \A j \in S : j <= i).arg)

C5_ReadyFirst ==
  (pc = "setup" \/ executed # <<>>) =>
    (events # <<>> /\ \A e \in DOMAIN events : events[e] = "Ready")

C5_Returned ==
  SetupOk =>
    /\ is_executing
    /\ FirstStart # 0
    /\ Len(executed) >= FirstStart
    /\ SubSeq(executed, 1, FirstStart) = UpTo(FirstStart)
    /\ Len(executed) = FirstStart => competition_mode = ModeAfter(FirstStart)
    /\ Len(events) = 1 => Len(executed) = FirstStart

C5_Live ==
  (pc = "setup" /\ \E i \in nrecv + 1 .. Len(arrived) : IsStart(i))
    ~> (SetupOk \/ pc \in {"exited", "panicked"})

\* C5: Ready is sent before setup processes a command; when setup has returned
\* Ok, is_executing is true and the commands up to the first StartExecution
\* have been executed in arrival order, so that the competition mode is that of
\* the last CompetitionMode command before it; and once a StartExecution is in
\* the channel, setup returns unless a command fails.
C5_SetupPhase == [](C5_ReadyFirst /\ C5_Returned) /\ C5_Live

\* Scenario S6: CompetitionMode, StartExecution.
C5_Witness ==
  /\ SetupOk
  /\ Len(executed) = 2
  /\ Cmd(1) = [type |-> "CompetitionMode", arg |-> 1]
  /\ competition_mode = CompModeArg(1)
  /\ events = <<"Ready">>

\* ---- C6
\* The ids wait_for_command received from the channel after the first n of them.
ReceivedAfter(n, m) == [k \in 1 .. (m - n) |-> n + k]

C6_Waiting ==
  pc = "wait" =>
    /\ Len(executed) = wait0.nexec
    /\ command_process_queue = wait0.queue \o ReceivedAfter(wait0.nrecv, nrecv)
    /\ \A i \in wait0.nrecv + 1 .. nrecv : ~Check(check, Cmd(i))
    /\ (nrecv = Len(arrived) /\ link = "open") => ~ENABLED WaitStep

C6_Returned ==
  WaitOk =>
    /\ nrecv > wait0.nrecv
    /\ Len(executed) = wait0.nexec + 1
    /\ Last(executed) = nrecv
    /\ Check(check, Cmd(nrecv))
    /\ command_process_queue = wait0.queue \o ReceivedAfter(wait0.nrecv, nrecv - 1)
    /\ \A i \in wait0.nrecv + 1 .. nrecv - 1 : ~Check(check, Cmd(i))

\* C6: wait_for_command blocks on an empty channel; while it runs it executes
\* nothing and appends each command it receives, in receive order, behind the
\* queue it found; when it returns Ok it has executed exactly one command, the
\* first it received that satisfies check, and the queue it found is still the
\* front of the queue, untested.
C6_WaitForCommand == C6_Waiting /\ C6_Returned

\* A queued command that satisfies check was left in place by a wait that
\* executed a later one.
C6_Witness ==
  /\ WaitOk
  /\ wait0.queue # <<>>
  /\ Check(check, Cmd(wait0.queue[1]))
  /\ command_process_queue = wait0.queue

\* ---- C7
C7_Inv ==
  /\ pc = "drain" => ENABLED DrainStep
  /\ RunTasksOk => command_process_queue = <<>>

C7_Step ==
  (pc = "drain" /\ arrived' = arrived /\ link' = link) =>
    IF command_process_queue = <<>> /\ nrecv = Len(arrived)
      THEN pc' # "drain" /\ executed' = executed /\ nrecv' = nrecv
      ELSE Len(executed') = Len(executed) + 1

\* C7: a drain can always take its next turn (it never waits for the channel);
\* each turn executes a command while the deferred queue or the channel holds
\* one and ends the drain, receiving nothing, as soon as neither does; after
\* run_tasks returned Ok the deferred queue is empty.
C7_DrainNeverBlocks == []C7_Inv /\ [][C7_Step]_vars

\* A run_tasks that executed a deferred command and a later one returned Ok.
C7_Witness ==
  /\ RunTasksOk
  /\ deferred # <<>>
  /\ Len(executed) = nrecv
  /\ Last(executed) > Last(deferred)

\* ---- C8
C8_Step ==
  \A id \in Ids :
    (pc = "drain" /\ is_executing /\ Executes(id) /\ IsStart(id)) =>
      /\ Len(events') = Len(events) + 1
      /\ ~GuestCallFailed'
      /\ pc' = "drain"

\* C8: a StartExecution received by a drain while already executing is
\* reported as an outbound event and the drain goes on: the vexTasksRun call
\* does not fail.
C8_DuplicateStartRecoverable == [][C8_Step]_vars

\* ---- C9
C9_Step ==
  render_mode' # render_mode =>
    \/ /\ render_mode = "Immediate" /\ render_mode' = "DoubleBuffered"
       /\ op' = "render"
    \/ /\ render_mode = "DoubleBuffered" /\ render_mode' = "Immediate"
       /\ op' = "disable_double_buffer"

\* C9: the render mode is Immediate until the first render(true) or
\* disable_double_buffer; a step changes it from Immediate to DoubleBuffered
\* only if it is render(true) and from DoubleBuffered to Immediate only if it
\* is disable_double_buffer; no other operation changes it.
C9_RenderModeTransitions ==
  [](latch = "none" => render_mode = "Immediate") /\ [][C9_Step]_vars

\* A draw has run in the double-buffered mode a render(true) set, and left it.
C9_Witness ==
  /\ render_mode = "DoubleBuffered"
  /\ latch = "render"
  /\ op = "draw"
  /\ dpc = "running"

\* ---- C10
\* No draw or write_text saves a frame between a render(true) and the next
\* render(true) or disable_double_buffer.
C10_Latched ==
  (latch = "render" /\ op' \in {"draw", "write_text"}) =>
    (~emitted' /\ saved' = saved)

C10_Unlatched ==
  (latch = "disable" /\ op' \in {"draw", "write_text"}) => emitted'

\* C10: after a render(true) no draw or write_text call emits a frame (the
\* saved frame is unchanged) until another render(true) or a
\* disable_double_buffer; after disable_double_buffer a draw or a non-empty
\* write_text emits a frame.
C10_DoubleBufferLatching == [][C10_Latched /\ C10_Unlatched]_vars

\* ---- C11
C11_Step ==
  (render_mode = "Immediate" /\ op' \in {"draw", "write_text", "write_text_empty"}) =>
    (emitted' /\ saved'.some /\ saved'.frame = canvas')

\* C11: every call of draw and every call of write_text, whatever its
\* arguments, ends with render(false): made in Immediate mode it emits a frame,
\* and the frame is the framebuffer as the call leaves it.
C11_ImplicitRender == [][C11_Step]_vars

\* ---- C12
InHeader(p) == p[2] < HEADER_HEIGHT

C12_Frame == \A p \in Probes : InHeader(p) => saved.frame[p] = HEADER_BG

C12_Step ==
  emitted' =>
    /\ \A p \in Probes :
         saved'.frame[p] = IF InHeader(p) THEN HEADER_BG ELSE canvas'[p]
    /\ op' = "render" =>
         \A p \in Probes : ~InHeader(p) => saved'.frame[p] = canvas[p]

\* C12: the saved frame has the header colour in rows 0..31 whatever was drawn
\* there before; each save leaves below the header what the framebuffer holds
\* at the render (for render(true): what it held before the call).
C12_HeaderOnEveryFrame == [](saved.some => C12_Frame) /\ [][C12_Step]_vars

\* A render(true) saved a frame that shows a fill of the whole display (row 32
\* is green), with the header over it.
C12_Witness ==
  /\ op = "render" /\ emitted
  /\ saved.frame[<<10, 32>>] = <<0, 255, 0>>
  /\ saved.frame[<<10, 31>>] = HEADER_BG

\* ---- C13
\* C13: draw(Rect) and draw(Circle) complete normally for any corner order,
\* centre and radius (and then write inside the framebuffer only).
C13_DrawCompletes == [][op' = "draw" => dpc' = "running"]_vars

\* ---- C14
\* What the claim says draw_buffer leaves at pixel p: pixel i of row j of the
\* buffer, where (x1 + i, y1 + j) = p and y1 + j <= y2; else the old pixel.
C14_Expected(cv, b) ==
  [p \in Probes |->
     LET i == p[1] - b.top_left[1]
         j == p[2] - b.top_left[2]
     IN IF /\ b.stride > 0 /\ 0 <= i /\ i < b.stride /\ 0 <= j
           /\ p[2] <= b.bot_right[2]
           /\ j * b.stride + i < Len(b.buf.pixels)
          THEN Unpack(b.buf.pixels[j * b.stride + i + 1])
          ELSE cv[p]]

\* C14: draw_buffer returns for any buffer length, stride and corners, and
\* leaves the framebuffer as the claim says: rows of stride pixels, limited by
\* y2 and the framebuffer, never by x2.
C14_DrawBuffer ==
  [][op' = "draw_buffer" =>
       /\ dpc' = "running"
       /\ \E b \in BufferCalls : canvas' = C14_Expected(canvas, b)]_vars

\* ---- C15
\* C15: write_text with a non-empty text completes normally at any coords.
C15_WriteTextCompletes == [][op' = "write_text" => dpc' = "running"]_vars

\* ---- C16
TextOps == {"write_text", "write_text_empty", "calculate_string_size"}

\* This step is a text query that returns, right after a text query with the
\* same (text, font_type).
SameQueryAgain ==
  /\ dpc = "running" /\ op \in TextOps /\ last_text.some
  /\ dpc' = "running" /\ op' \in TextOps /\ last_text' = last_text

CachedAnswer ==
  /\ ~laid_out'
  /\ text_layout_cache.some /\ text_layout_cache' = text_layout_cache
  /\ text_layout_cache.text = last_text.text /\ text_layout_cache.font = last_text.font

CacheIsLayoutOfKey ==
  text_layout_cache.some =>
    text_layout_cache.glyphs = Layout(text_layout_cache.text, text_layout_cache.font)

CacheIsLastQuery ==
  (last_text.some /\ dpc = "running") =>
    /\ text_layout_cache.some
    /\ text_layout_cache.text = last_text.text
    /\ text_layout_cache.font = last_text.font

C17_Step ==
  dpc' = "running" =>
    IF op' \in {"write_text", "calculate_string_size"}
      THEN /\ text_layout_cache'.some
           /\ text_layout_cache'.text = last_text'.text
           /\ text_layout_cache'.font = last_text'.font
      ELSE text_layout_cache' = text_layout_cache

BadString(ptr) == ReadCString(ptr).kind # "some"

\* The text the last text operation was given is the bytes from ptr to the
\* first NUL.
UsedString(ptr) ==
  /\ last_text'.some
  /\ Len(last_text'.text) = FirstNul(ptr) - 1 - ptr
  /\ \A i \in DOMAIN last_text'.text :
       last_text'.text[i] = CharOf(GuestMemory[ptr + i])

C20_Step ==
  \A c \in ShimCalls : \A build \in Builds :
    Shim(c, build) =>
      IF BadString(c.ptr)
        THEN /\ dpc' = "running" /\ op' = "trap"
             /\ ~emitted'
             /\ UNCHANGED << canvas, text_layout_cache, render_mode, saved >>
        ELSE UsedString(c.ptr)

\* C20: a string-taking shim whose pointer is outside guest memory, or is
\* followed by no NUL, or by bytes that are not UTF-8, returns an error to the
\* engine, leaves framebuffer, glyph cache and render mode alone and emits no
\* frame; otherwise it uses the bytes before the first NUL.
C20_StringShims == [][C20_Step]_vars

\* ------------------------------------------------------------ C18 and C19

\* The 4 bytes of guest memory at JUMP_TABLE_START + A are k, little-endian.
C18_Encodes(A, k) ==
  /\ mem[A] = k % 256
  /\ mem[A + 1] = (k \div 256) % 256
  /\ mem[A + 2] = (k \div 65536) % 256
  /\ mem[A + 3] = (k \div 16777216) % 256

\* C18: after expose returned Ok on a table of size B with n registered
\* addresses, the memory at JUMP_TABLE_START + A holds, little-endian, an index
\* k in B..B+n-1 whose table slot is the function registered for A and is not
\* null, and A -> k is a bijection onto B..B+n-1.
C18_Expose ==
  jpc = "exposed" =>
    LET n == Cardinality(DOMAIN api)
        K == sdk_base .. sdk_base + n - 1
    IN /\ \A A \in DOMAIN api :
            \E k \in K :
              /\ C18_Encodes(A, k)
              /\ slots[k] = api[A]
              /\ slots[k] # 0
              /\ \A A2 \in DOMAIN api \ {A} : ~C18_Encodes(A2, k)
       /\ \A k \in K : \E A \in DOMAIN api : C18_Encodes(A, k)

\* expose has returned Ok on a table of 250 slots and an index above 255 has
\* been written.
C18_Witness ==
  /\ jpc = "exposed"
  /\ sdk_base = 250
  /\ \E A \in DOMAIN api : mem[A + 1] = 1 /\ slots[256 + mem[A]] = api[A]

\* The addresses JumpTable::new and build_display_jump_table insert.
C19_BootAddresses == DisplayAddresses \o NewAddresses

C19_Distinct ==
  \A i, j \in DOMAIN C19_BootAddresses :
    i # j => C19_BootAddresses[i] # C19_BootAddresses[j]

C19_Step ==
  (jpc # "start" /\ jbuild = "debug") =>
    /\ \A a \in DOMAIN api : a \in DOMAIN api' /\ api'[a] = api[a]
    /\ \A a \in ControllerAddresses :
         (InsertController(a) /\ a \in DOMAIN api) => (jpc' = "panicked" /\ api' = api)

\* C19: in a debug build an insert of an address already present fails the
\* assertion and replaces nothing; the addresses JumpTable::new and
\* build_display_jump_table insert are pairwise distinct, and the assertion
\* fails only after an insert of build_controller_jump_table.
C19_UniqueAddresses ==
  /\ [](C19_Distinct /\ (jpc = "panicked" => nctl > 0))
  /\ [][C19_Step]_vars

\* A debug build has refused an address inserted twice.
C19_Witness ==
  /\ jpc = "panicked"
  /\ jbuild = "debug"
  /\ nctl > 0
  /\ \E a \in ControllerAddresses : a \in DOMAIN api

\* ------------------------------------------------------------------- C21

\* The span of (x2-x1)*(y2-y1)*4 bytes from buf_ptr is not inside guest memory.
C21_BadSpan(c) ==
  \/ c.x2 < c.x1
  \/ c.y2 < c.y1
  \/ c.ptr + (c.x2 - c.x1) * (c.y2 - c.y1) * 4 > Len(GuestMemory)

C21_Blit(c) ==
  C14_Expected(canvas,
               [buf |-> BufferAt(c.ptr, (c.x2 - c.x1) * (c.y2 - c.y1) * 4),
                top_left |-> << c.x1, c.y1 >>, bot_right |-> << c.x2, c.y2 >>,
                stride |-> c.stride])

C21_Step ==
  \A c \in CopyRectCalls : \A build \in Builds :
    CopyRect(c, build) =>
      IF C21_BadSpan(c)
        THEN /\ dpc' = "running" /\ op' = "trap"
             /\ canvas' = canvas
        ELSE /\ dpc' = "running" /\ op' = "draw_buffer"
             /\ canvas' = C21_Blit(c)

\* C21: the copy_rect shim blits the (x2-x1)*(y2-y1)*4 bytes of guest memory
\* from buf_ptr; when that span is not inside guest memory, or a corner is
\* reversed, it returns an error to the engine and leaves the framebuffer alone.
C21_CopyRect == [][C21_Step]_vars

\* ------------------------------------------------------------------- C22

\* A StartExecution has been passed to execute_command.
StartExecuted == \E k \in DOMAIN executed : IsStart(executed[k])

\* setup consumes nothing once a StartExecution has been executed, and a setup
\* called while is_executing sends Ready and returns Ok at its first loop test.
C22_Setup ==
  /\ (pc = "setup" /\ StartExecuted) =>
       /\ UNCHANGED << executed, nrecv, command_process_queue >>
       /\ UNCHANGED << arrived, link >> =>
            pc' = "idle" /\ result' = [call |-> "setup", res |-> "ok"]
  /\ (pc = "idle" /\ pc' = "setup") =>
       /\ events' = Append(events, "Ready")
       /\ UNCHANGED << executed, nrecv, command_process_queue >>
  /\ (pc = "setup" /\ pc' = "idle") =>
       /\ \A i \in Ids : (FirstStart # 0 /\ i > FirstStart) => i \notin Range(executed') \/ i \in Range(executed)
       /\ nrecv' = nrecv

\* A command that arrived after the first StartExecution is executed by a drain.
C22_ByDrain ==
  \A i \in Ids : (Executes(i) /\ FirstStart # 0 /\ i > FirstStart) => pc = "drain"

\* ... by a drain or by wait_for_command.
C22_ByLaterCall ==
  \A i \in Ids : (Executes(i) /\ FirstStart # 0 /\ i > FirstStart) => pc \in {"drain", "wait"}

\* C22 as stated: setup executes nothing past the first StartExecution, the
\* commands that arrived after it are executed only by a drain, and a setup
\* called while is_executing sends Ready and consumes nothing.
C22_Original == [][C22_Setup /\ C22_ByDrain]_vars

\* C22, amended: the commands that arrived after the first StartExecution are
\* executed only by a later drain or wait_for_command, never by setup.
C22_SetupStopsAtStart == [][C22_Setup /\ C22_ByLaterCall]_vars

\* A second setup has returned Ok after a drain executed a command that arrived
\* behind the first StartExecution.
C22_Witness ==
  /\ SetupOk
  /\ Len(events) = 2
  /\ FirstStart # 0
  /\ \E k \in DOMAIN executed : executed[k] > FirstStart

\* ------------------------------------------------------------------- C23

\* This step of wait_for_command receives a command that satisfies the predicate.
C23_Match == pc = "wait" /\ nrecv' = nrecv + 1 /\ Check(check, Cmd(nrecv + 1))

C23_Step ==
  /\ C23_Match =>
       /\ Executes(nrecv + 1)
       /\ pc' = "idle"
       /\ result' = [call |-> "wait_for_command", res |-> "ok"]
  /\ (pc = "wait" /\ result'.res = "err" /\ result' # result) =>
       /\ Recv = "err"
       /\ UNCHANGED << executed, nrecv, command_process_queue >>

\* C23: wait_for_command returns Ok at the first received command that
\* satisfies the predicate, whatever execute_command returned for it, and
\* returns Err only when the blocking receive fails.
C23_WaitDiscardsError == [][C23_Step]_vars

\* wait_for_command has returned Ok on a StartExecution that execute_command
\* refused because execution had started.
C23_Witness ==
  /\ WaitOk
  /\ check = "IsStartExecution"
  /\ Len(executed) = wait0.nexec + 1
  /\ \E k \in 1 .. Len(executed) - 1 : IsStart(executed[k])
  /\ IsStart(Last(executed))

\* ------------------------------------------------------------------- C24

\* The commands not yet executed, in the order a drain takes them: the
\* deferred queue, then the channel.
Pending == command_process_queue \o ReceivedAfter(nrecv, Len(arrived))

\* No command is passed to execute_command twice.
C24_Once == \A k, l \in DOMAIN executed : k # l => executed[k] # executed[l]

\* A drain executes the first pending command and removes it, and the rest
\* stays as it was; the step returns only with the Err of execute_command, and
\* does so on a StartExecution that comes while is_executing.
C24_Drain ==
  \A i \in Ids :
    (pc = "drain" /\ Executes(i)) =>
      /\ Pending # <<>> /\ i = Head(Pending)
      /\ Pending' = Tail(Pending)
      /\ pc' = "idle" => result' = [call |-> "run_tasks", res |-> "err"]
      /\ (IsStart(i) /\ is_executing) => pc' = "idle"

\* The drain called right after a drain that failed on a command returns.
C24_NextDrainReturns == pc = "drain" /\ pc' = "idle" /\ failed_at > 0

\* Every command that had arrived when the earlier drain failed is executed.
C24_AllExecuted == \A i \in 1 .. failed_at : i \in Range(executed')

\* This drain failed on a command in its turn, and the commands behind it are
\* still pending.
C24_FailedAgain ==
  /\ result'.res = "err"
  /\ executed' # executed
  /\ \A i \in 1 .. failed_at : i \in Range(executed') \cup Range(Pending')

\* C24 as stated: a drain that fails on a command returns the error at once,
\* the command is removed and never executed again, the commands behind it stay
\* in order, and when the next drain returns they have been executed.
C24_Original ==
  /\ []C24_Once
  /\ [][C24_Drain /\ (C24_NextDrainReturns => C24_AllExecuted)]_vars

\* A drain returns with every command that has arrived executed, unless it
\* failed on a command.
C24_Return ==
  (pc = "drain" /\ pc' = "idle") =>
    \/ Pending' = <<>> /\ \A i \in Ids : i \in Range(executed')
    \/ result'.res = "err" /\ executed' # executed

\* C24, amended: ... when the next drain returns they have been executed,
\* unless that drain failed on a command in its turn, which leaves the commands
\* behind that one queued in order.
C24_DrainStopsAtFailure ==
  /\ []C24_Once
  /\ [][/\ C24_Drain
        /\ C24_NextDrainReturns => C24_AllExecuted \/ C24_FailedAgain
        /\ C24_Return]_vars

\* The drain after a failed drain has executed a command that was behind the
\* failing one.
C24_Witness ==
  /\ pc = "drain"
  /\ failed_at > 0
  /\ result = [call |-> "run_tasks", res |-> "err"]
  /\ executed # <<>>
  /\ Last(executed) <= failed_at
  /\ Cmd(Last(executed)).type \in {"CompetitionMode", "SetTextMetrics"}

\* ------------------------------------------------------------------- C25

C25_Step ==
  op' \in {"erase", "draw_buffer"} =>
    /\ ~emitted'
    /\ UNCHANGED << saved, render_mode, foreground_color, background_color >>
    /\ op' = "erase" => \A p \in Probes : canvas'[p] = DefaultBg

Grown == jpc \in {"exposing", "exposed"} \/ (jpc = "failed" /\ DOMAIN slots # DOMAIN GuestTable(sdk_base))

\* Byte o of the jump table belongs to the cell of a registered address.
InCell(o) == \E A \in DOMAIN api : o \in A .. A + 3

\* C26: expose grows the table by exactly n slots, leaves the slots below the
\* old size as they were, and writes guest memory only inside the 4-byte cells
\* of the registered addresses.
C26_ExposeFrame ==
  /\ Grown => DOMAIN slots = 0 .. sdk_base + Cardinality(DOMAIN api) - 1
  /\ jpc \in {"exposing", "exposed", "failed"} =>
       \A k \in 0 .. sdk_base - 1 : k \in DOMAIN slots /\ slots[k] = GuestSlot(k)
  /\ \A o \in MemBytes : ~InCell(o) => mem[o] = GuestByte

\* expose has returned Ok on a table that had 250 slots, with an address that
\* was never registered next to one that was.
C26_Witness ==
  /\ jpc = "exposed"
  /\ sdk_base = 250
  /\ slots[249] = GuestSlot(249)
  /\ slots[250] # 0
  /\ 420 \notin DOMAIN api
  /\ \E A \in DOMAIN api : mem[A] # GuestByte

\* ------------------------------------------------------------------- C27

\* The addresses JumpTable::new and build_display_jump_table register are
\* pairwise at least 4 apart, and the cell of each ends inside 0x700 pages.
C27_Addresses ==
  /\ \A i, j \in DOMAIN C19_BootAddresses :
       i # j => \/ C19_BootAddresses[i] + 4 <= C19_BootAddresses[j]
                \/ C19_BootAddresses[j] + 4 <= C19_BootAddresses[i]
  /\ \A i \in DOMAIN C19_BootAddresses :
       JUMP_TABLE_START + C19_BootAddresses[i] + 4 <= TargetPages * PageSize

\* A turn of the loop of expose changes no byte of the cell of another address
\* that JumpTable::new or build_display_jump_table registered.
C27_Step ==
  (jpc = "exposing" /\ offset < Cardinality(DOMAIN api)) =>
    \A i \in DOMAIN C19_BootAddresses :
      LET A == C19_BootAddresses[i] IN
      A # Nth(seed, offset) => \A o \in A .. A + 3 : mem'[o] = mem[o]

\* expose returned Err from memory.write.
C27_WriteFailed == jpc = "failed" /\ DOMAIN slots # DOMAIN GuestTable(sdk_base)

\* C27: the boot addresses are pairwise at least 4 apart, so no write of expose
\* touches the cell of another address; and every cell ends inside 0x700 pages,
\* so with a guest memory of 0x700 pages expose never fails on a memory write.
C27_CellsDisjointAndInRange ==
  /\ [](C27_Addresses /\ (mem_size = TargetPages * PageSize => ~C27_WriteFailed))
  /\ [][C27_Step]_vars

\* With 0x700 pages of guest memory expose has written the cells of two
\* neighbouring addresses, 0x640 and 0x644, with different indices.
C27_Witness ==
  /\ jpc = "exposed"
  /\ mem_size = TargetPages * PageSize
  /\ nctl = 0
  /\ mem[1600] # mem[1604]
  /\ mem[1600] # GuestByte
  /\ mem[1604] # GuestByte

====
